---- MODULE Spec2Model ----
(***************************************************************************)
(* Appraise cs_rest: the HIT / RankingTask / RankingResult data model, the  *)
(* post_save / post_delete signal handlers, the admin actions, the          *)
(* TimedKeyValueData status log and the XML-derived dynamic fields.         *)
(*                                                                         *)
(* The specifications share the variables:                                  *)
(*   Spec        the database under sequential (one at a time) requests     *)
(*   SpecConc    the same database under interleaved requests               *)
(*   SpecAdmin   the admin actions over the database                        *)
(*   SpecKV      TimedKeyValueData.update_status_if_changed                 *)
(*   SpecKVConc  the same calls, interleaved                                *)
(*   SpecXml     HIT.save / reload_dynamic_fields over XML documents        *)
(*   SpecRes     RankingResult.reload_dynamic_fields and the exports        *)
(*   SpecIds     HIT construction and the first save: hit_id                *)
(*   SpecRepair  the script repair_cs_rest_xml.py                           *)
(***************************************************************************)
EXTENDS Integers, Sequences, FiniteSets, TLC

VARIABLES
    results,      \* RankingResult rows: [user, hit] -> number of rows with item__hit = hit
    hitUsers,     \* HIT.users (many-to-many)
    active,       \* HIT.active
    mturk_only,   \* HIT.mturk_only
    completed,    \* HIT.completed
    assigned,     \* HIT.assigned (0 = null)
    mappings,     \* UserHITMapping rows: [user, project, hit] -> number of rows
    now,          \* datetime.now(): a time later than every stored time
    exc,          \* the exception that left the last handler (None: it returned)
    pc,           \* per request: where an interleaved request stands
    local,        \* per request: what an interleaved request has read so far
    kvRows,       \* TimedKeyValueData rows, in the order they were inserted
    kvWrites,     \* the update_status_if_changed calls made so far
    kvNow,        \* datetime.now() as auto_now_add reads it
    hit,          \* a HIT instance: id (0: not saved yet), hit_xml, hit_attributes
    hitTasks,     \* the RankingTask rows of that HIT: their item_xml, by id
    hitSaved,     \* the save() calls on the HIT: their number, hit_xml at the first
    task,         \* a RankingTask instance: item_xml and the derived fields
    xmlExc,       \* the exception that left the last call on these instances
    res,          \* a RankingResult instance: item, user, raw_result, results, systems
    resOut,       \* the last call on that instance and what it returned
    hitObjs,      \* HIT objects in memory: hit_id (None: not constructed), saved
    repair        \* repair_cs_rest_xml.py: the run of the script; fixed holds
                  \* the text of hits-file.fixed once it is written

dbvars == <<results, hitUsers, active, mturk_only, completed, assigned, mappings, now, exc>>
concvars == <<pc, local>>
kvvars == <<kvRows, kvWrites, kvNow>>
xmlvars == <<hit, hitTasks, hitSaved, task, xmlExc>>
resvars == <<res, resOut>>
miscvars == <<hitObjs, repair>>
vars == <<dbvars, concvars, kvvars, xmlvars, resvars, miscvars>>

(***************************************************************************)
(* Bounds of the model and constants of the program.                       *)
(***************************************************************************)
MaxResults == 3
MaxRows == 2
MaxWrites == 4
MaxChildren == 2
MaxSaves == 2
MaxRank == 2
MAX_USERS_PER_HIT == 1
SlotsPerLine == 5
ApfSlots == 5

Users == {"u1", "u2"}
HITs == {"h1", "h2"}
ProjectSeq == <<"p1", "p2">>
Projects == {ProjectSeq[i] : i \in 1..Len(ProjectSeq)}
None == "None"

\* HIT.language_pair: LANGUAGE_PAIR_CHOICES holds one pair.
language_pair(h) == "ina2ces"
LanguagePairArgs == {None, "ina2ces", "deu2ces"}

\* hit.project_set.all(), the reverse side of Project.HITs, ordered by id.
project_set(h) == IF h = "h1" THEN <<"p1", "p2">> ELSE <<"p1">>

\* Meta.ordering of HIT: ('id', ...).
HitId(h) == IF h = "h1" THEN 1 ELSE 2

Requests == {"r1", "r2"}
NoLocal == [user |-> None, hit |-> None, i |-> 0, project |-> None,
            choice |-> [kind |-> "none", hit |-> None]]

(***************************************************************************)
(* The database as the handlers see it: the tables a handler reads and      *)
(* writes while it runs are threaded through it as a record.                *)
(***************************************************************************)
DB == [results |-> results, hitUsers |-> hitUsers, mappings |-> mappings,
       assigned |-> assigned, now |-> now]

InProject(h, p) == \E i \in 1..Len(project_set(h)) : project_set(h)[i] = p

(***************************************************************************)
(* Times.  The program only ever compares times, so they are kept up to     *)
(* their order: 0 is null, the stored times are numbered 1, 2, ... from    *)
(* the oldest, and datetime.now() is later than every stored time.         *)
(***************************************************************************)
Stored(a) == {a[h] : h \in HITs} \ {0}

(***************************************************************************)
(* UserHITMapping.save: the HIT's assigned field is set to datetime.now()   *)
(* and the HIT saved, then the mapping row is written.                     *)
(***************************************************************************)
UserHITMappingSave_NoAssign(db, u, p, h) ==
    [db EXCEPT !.mappings[<<u, p, h>>] = @ + 1]

UserHITMappingSave(db, u, p, h) ==
    LET b == [db.assigned EXCEPT ![h] = db.now]
        a == [g \in HITs |-> IF b[g] = 0 THEN 0
                             ELSE Cardinality({t \in Stored(b) : t <= b[g]})]
    IN  [db EXCEPT !.assigned = a,
                   !.mappings[<<u, p, h>>] = @ + 1,
                   !.now = Cardinality(Stored(a)) + 1]

(***************************************************************************)
(* _compute_next_task_for_user(user, project, language_pair), the           *)
(* assignment allocator (section 4.2 of the specification).                 *)
(***************************************************************************)
HasMapping(m, u, h) == \E p \in Projects : m[<<u, p, h>>] > 0

\* the users assigned to a HIT who have not completed it
Load(m, h) == Cardinality({v \in Users : HasMapping(m, v, h)})

\* the live mapping of the user in the project
CurrentHits(db, u, p, lp) ==
    {h \in HITs : db.mappings[<<u, p, h>>] > 0 /\ language_pair(h) = lp}

Eligible(db, u, p, lp) ==
    {h \in HITs : /\ active[h] /\ ~mturk_only[h] /\ ~completed[h]
                  /\ language_pair(h) = lp
                  /\ InProject(h, p)
                  /\ db.results[<<u, h>>] = 0
                  /\ ~HasMapping(db.mappings, u, h)}

\* fewest assigned-but-incomplete users, then oldest assigned, then id
First(db, S) ==
    LET Before(a, b) ==
            \/ Load(db.mappings, a) < Load(db.mappings, b)
            \/ /\ Load(db.mappings, a) = Load(db.mappings, b)
               /\ \/ db.assigned[a] < db.assigned[b]
                  \/ db.assigned[a] = db.assigned[b] /\ HitId(a) < HitId(b)
    IN  CHOOSE h \in S : \A g \in S \ {h} : Before(h, g)

\* what the allocator reads: the batch of the live mapping, or the batch it
\* chooses, or none
NextTaskRead(db, u, p, lp) ==
    IF CurrentHits(db, u, p, lp) # {}
    THEN [kind |-> "current", hit |-> First(db, CurrentHits(db, u, p, lp))]
    ELSE IF Eligible(db, u, p, lp) # {}
         THEN [kind |-> "new", hit |-> First(db, Eligible(db, u, p, lp))]
         ELSE [kind |-> "none", hit |-> None]

\* what the allocator writes for a choice it has read
NextTaskWrite(db, u, p, choice) ==
    IF choice.kind = "new" THEN UserHITMappingSave(db, u, p, choice.hit) ELSE db

ComputeNextTask(db, u, p, lp) ==
    LET choice == NextTaskRead(db, u, p, lp)
    IN  [db |-> NextTaskWrite(db, u, p, choice), ret |-> choice.hit]

(***************************************************************************)
(* update_user_hit_mappings, the post_save receiver of RankingResult.       *)
(***************************************************************************)
HandlerFires_OffByOne(n) == n > 3

\* len(results) > 2
HandlerFires(n) == n > 2

\* the loop with the mapping rows of every user deleted, not only the user's
RECURSIVE CleanupLoop_AllUsers(_, _, _, _)
CleanupLoop_AllUsers(db, u, h, i) ==
    IF i > Len(project_set(h)) THEN db
    ELSE LET p == project_set(h)[i]
             deleted == [db EXCEPT !.mappings =
                           [k \in DOMAIN @ |-> IF k[2] = p /\ k[3] = h THEN 0 ELSE @[k]]]
         IN  CleanupLoop_AllUsers(
                 ComputeNextTask(deleted, u, p, language_pair(h)).db, u, h, i + 1)

\* for project in hit.project_set.all(): delete the user's mapping to the HIT,
\* then ask the allocator
RECURSIVE CleanupLoop(_, _, _, _)
CleanupLoop(db, u, h, i) ==
    IF i > Len(project_set(h)) THEN db
    ELSE LET p == project_set(h)[i]
             deleted == [db EXCEPT !.mappings[<<u, p, h>>] = 0]
         IN  CleanupLoop(ComputeNextTask(deleted, u, p, language_pair(h)).db,
                         u, h, i + 1)

update_user_hit_mappings(db, u, h) ==
    IF HandlerFires(db.results[<<u, h>>])
    THEN CleanupLoop([db EXCEPT !.hitUsers[h] = @ \cup {u}], u, h, 1)
    ELSE db

(***************************************************************************)
(* remove_user_from_hit, the post_delete receiver of RankingResult:         *)
(* hit.users.remove(user), then hit.project, which HIT does not have (the   *)
(* reverse accessor of Project.HITs is project_set): AttributeError, which  *)
(* the except clause does not catch.                                       *)
(***************************************************************************)
remove_user_from_hit_Reverting(db, u, h) ==
    [db  |-> [db EXCEPT !.hitUsers[h] = @ \ {u}],
     completed |-> [completed EXCEPT ![h] =
                      @ /\ Cardinality(db.hitUsers[h] \ {u}) >= MAX_USERS_PER_HIT],
     recomputed |-> FALSE,
     exc |-> "AttributeError"]

remove_user_from_hit(db, u, h) ==
    [db  |-> [db EXCEPT !.hitUsers[h] = @ \ {u}],
     completed |-> completed,
     recomputed |-> FALSE,
     exc |-> "AttributeError"]

(***************************************************************************)
(* HIT.compute_remaining_hits(language_pair)                               *)
(***************************************************************************)
RemainingQS(lp) ==
    {h \in HITs : /\ active[h] /\ ~mturk_only[h] /\ ~completed[h]
                  /\ (lp # None => language_pair(h) = lp)}

StillAvailable_OffByOne(h) == Cardinality(hitUsers[h]) <= MAX_USERS_PER_HIT

\* hit.users.count() < MAX_USERS_PER_HIT
StillAvailable(h) == Cardinality(hitUsers[h]) < MAX_USERS_PER_HIT

compute_remaining_hits(lp) ==
    [available |-> Cardinality({h \in RemainingQS(lp) : StillAvailable(h)}),
     completed |-> [h \in HITs |->
                      IF h \in RemainingQS(lp) /\ ~StillAvailable(h)
                      THEN TRUE ELSE completed[h]]]

(***************************************************************************)
(* complete_hits(modeladmin, request, queryset), the admin action           *)
(***************************************************************************)
complete_hits(queryset) ==
    [h \in HITs |->
        IF h \in queryset /\ Cardinality(hitUsers[h]) >= 1
        THEN TRUE ELSE completed[h]]

(***************************************************************************)
(* Init: the HITs exist, active and not completed; nobody has submitted.    *)
(***************************************************************************)
DbStart(mturk) ==
    /\ mturk_only \in mturk
    /\ results = [k \in Users \X HITs |-> 0]
    /\ hitUsers = [h \in HITs |-> {}]
    /\ active = [h \in HITs |-> TRUE]
    /\ completed = [h \in HITs |-> FALSE]
    /\ assigned = [h \in HITs |-> 0]
    /\ mappings = [k \in Users \X Projects \X HITs |-> 0]
    /\ now = 1
    /\ exc = None

    /\ pc = [r \in Requests |-> "idle"]
    /\ local = [r \in Requests |-> NoLocal]



SetDB(db) ==
    /\ results' = db.results
    /\ hitUsers' = db.hitUsers
    /\ mappings' = db.mappings
    /\ assigned' = db.assigned
    /\ now' = db.now

(***************************************************************************)
(* Sequential operations: each is one request, run to its end.             *)
(***************************************************************************)
\* RankingResult(item=<an item of h>, user=u).save(), with its post_save signal
SaveResult(u, h) ==
    /\ results[<<u, h>>] < MaxResults
    /\ LET inserted == [DB EXCEPT !.results[<<u, h>>] = @ + 1]
       IN  SetDB(update_user_hit_mappings(inserted, u, h))
    /\ exc' = None
    /\ UNCHANGED <<active, mturk_only, completed, concvars, kvvars, xmlvars, resvars, miscvars>>

\* RankingResult.delete(), with its post_delete signal.  The exception leaves
\* the receiver and the delete() call; whether the row's deletion and the
\* removal of the user persist is the datastore's choice (a transactional
\* backend rolls both back, a non-transactional one keeps both).
DeleteResult(u, h) ==
    /\ results[<<u, h>>] > 0
    /\ LET deleted == [DB EXCEPT !.results[<<u, h>>] = @ - 1]
           out == remove_user_from_hit(deleted, u, h)
       IN  /\ \/ SetDB(out.db) /\ completed' = out.completed
              \/ out.exc # None /\ SetDB(DB) /\ completed' = completed
           /\ exc' = out.exc
    /\ UNCHANGED <<active, mturk_only, concvars, kvvars, xmlvars, resvars, miscvars>>

\* a view asks for the user's next task
NextTask(u, p, lp) ==
    /\ LET out == ComputeNextTask(DB, u, p, lp)
       IN  SetDB(out.db)
    /\ exc' = None
    /\ UNCHANGED <<active, mturk_only, completed, concvars, kvvars, xmlvars, resvars, miscvars>>

ComputeRemainingHits(lp) ==
    /\ UNCHANGED <<results, hitUsers, active, mturk_only, assigned, mappings, now, concvars, kvvars, xmlvars, resvars, miscvars>>
    /\ exc' = None
    /\ LET out == compute_remaining_hits(lp)
       IN  completed' = out.completed

\* an administrator runs "Complete selected HITs" on a selection
CompleteHits(queryset) ==
    /\ completed' = complete_hits(queryset)
    /\ exc' = None
    /\ UNCHANGED <<results, hitUsers, active, mturk_only, assigned, mappings, now, concvars, kvvars, xmlvars, resvars, miscvars>>

set_hits_active_Completing(queryset, value) ==
    [active |-> [h \in HITs |-> IF h \in queryset THEN value ELSE active[h]],
     mturk_only |-> mturk_only,
     completed |-> [h \in HITs |-> IF h \in queryset THEN value ELSE completed[h]]]

\* activate_hits (value True) and deactivate_hits (value False): for every
\* HIT of the selection, hit.active = value and hit.save(), which writes the
\* fields of the object as the queryset loaded them
set_hits_active(queryset, value) ==
    [active |-> [h \in HITs |-> IF h \in queryset THEN value ELSE active[h]],
     mturk_only |-> mturk_only,
     completed |-> completed]

\* an administrator runs "Activate selected HITs" or "Deactivate selected
\* HITs" on a selection
SetHitsActive(queryset, value) ==
    /\ LET out == set_hits_active(queryset, value)
       IN  /\ active' = out.active
           /\ mturk_only' = out.mturk_only
           /\ completed' = out.completed
    /\ exc' = None
    /\ UNCHANGED <<results, hitUsers, assigned, mappings, now, concvars, kvvars, xmlvars, resvars, miscvars>>

Next ==
    \/ \E u \in Users, h \in HITs : SaveResult(u, h)
    \/ \E u \in Users, h \in HITs : DeleteResult(u, h)
    \/ \E u \in Users, p \in Projects, lp \in LanguagePairArgs \ {None} : NextTask(u, p, lp)
    \/ \E lp \in LanguagePairArgs : ComputeRemainingHits(lp)
    \/ \E queryset \in SUBSET HITs \ {{}} : CompleteHits(queryset)


(***************************************************************************)
(* Interleaved requests.  Each request is handled by its own worker; the    *)
(* statements of a request are separate database operations, and the        *)
(* allocator is a read (the query for the live mapping and the eligible     *)
(* batches) followed by a write (the new mapping row), with no lock and no  *)
(* uniqueness constraint on UserHITMapping between them.                    *)
(***************************************************************************)
\* the number of UserHITMapping rows
RECURSIVE SumOver(_, _)
SumOver(m, S) ==
    IF S = {} THEN 0
    ELSE LET k == CHOOSE k \in S : TRUE IN m[k] + SumOver(m, S \ {k})

Rows(m) == SumOver(m, DOMAIN m)

\* the handler's loop body up to the allocator's read, for project number i
HandlerRead(db, u, h, i) ==
    LET p == project_set(h)[i]
        deleted == [db EXCEPT !.mappings[<<u, p, h>>] = 0]
    IN  [db |-> deleted,
         local |-> [user |-> u, hit |-> h, i |-> i, project |-> p,
                    choice |-> NextTaskRead(deleted, u, p, language_pair(h))]]

\* a view asks for the user's next task: the allocator's read
ConcNextTaskRead(r, u, p, lp) ==
    /\ pc[r] = "idle"
    /\ Rows(mappings) + Cardinality({q \in Requests : pc[q] = "write"}) < MaxRows
    /\ pc' = [pc EXCEPT ![r] = "write"]
    /\ local' = [local EXCEPT ![r] =
                   [user |-> u, hit |-> None, i |-> 0, project |-> p,
                    choice |-> NextTaskRead(DB, u, p, lp)]]
    /\ UNCHANGED <<dbvars, kvvars, xmlvars, resvars, miscvars>>

\* a result is saved; its post_save receiver runs up to the allocator's read
ConcSaveResult(r, u, h) ==
    /\ pc[r] = "idle"
    /\ Rows(mappings) + Cardinality({q \in Requests : pc[q] = "write"}) < MaxRows
    /\ results[<<u, h>>] < MaxResults
    /\ LET inserted == [DB EXCEPT !.results[<<u, h>>] = @ + 1]
       IN  IF HandlerFires(inserted.results[<<u, h>>]) /\ Len(project_set(h)) > 0
           THEN LET out == HandlerRead([inserted EXCEPT !.hitUsers[h] = @ \cup {u}], u, h, 1)
                IN  /\ SetDB(out.db)
                    /\ local' = [local EXCEPT ![r] = out.local]
                    /\ pc' = [pc EXCEPT ![r] = "write"]
           ELSE /\ SetDB(update_user_hit_mappings(inserted, u, h))
                /\ UNCHANGED concvars
    /\ exc' = None
    /\ UNCHANGED <<active, mturk_only, completed, kvvars, xmlvars, resvars, miscvars>>

\* the allocator's write; a receiver then goes on with its next project
ConcWrite(r) ==
    /\ pc[r] = "write"
    /\ LET l == local[r]
           written == NextTaskWrite(DB, l.user, l.project, l.choice)
       IN  IF l.hit # None /\ l.i < Len(project_set(l.hit))
           THEN LET out == HandlerRead(written, l.user, l.hit, l.i + 1)
                IN  /\ SetDB(out.db)
                    /\ local' = [local EXCEPT ![r] = out.local]
                    /\ pc' = pc
           ELSE /\ SetDB(written)
                /\ local' = [local EXCEPT ![r] = NoLocal]
                /\ pc' = [pc EXCEPT ![r] = "idle"]
    /\ exc' = None
    /\ UNCHANGED <<active, mturk_only, completed, kvvars, xmlvars, resvars, miscvars>>

NextConc ==
    \/ \E r \in Requests, u \in Users, p \in Projects,
          lp \in {language_pair(h) : h \in HITs} : ConcNextTaskRead(r, u, p, lp)
    \/ \E r \in Requests, u \in Users, h \in HITs : ConcSaveResult(r, u, h)
    \/ \E r \in Requests : ConcWrite(r)



(***************************************************************************)
(* TimedKeyValueData.update_status_if_changed(key, new_value).              *)
(* date_and_time is auto_now_add: each row gets the time of its insertion,  *)
(* and the clock has moved on by the next insertion.                        *)
(***************************************************************************)
Keys == {"global_stats", "user_stats"}
Values == {"v1", "v2"}

\* the positions of the rows of a key, i.e. cls.objects.filter(key=key)
FilterKey(rows, key) == {i \in 1..Len(rows) : rows[i].key = key}

\* the positions in S in ascending order of date_and_time
RECURSIVE OrderByDate(_, _)
OrderByDate(rows, S) ==
    IF S = {} THEN <<>>
    ELSE LET i == CHOOSE i \in S :
                    \A j \in S : rows[i].date_and_time <= rows[j].date_and_time
         IN  <<i>> \o OrderByDate(rows, S \ {i})

ValuesList(rows, q) == [i \in 1..Len(q) |-> rows[q[i]].value]

LatestValues_Unreversed(rows, key) ==
    ValuesList(rows, OrderByDate(rows, FilterKey(rows, key)))

\* filter(key=key).order_by('date_and_time').reverse().values_list('value', flat=True)
LatestValues(rows, key) ==
    LET q == OrderByDate(rows, FilterKey(rows, key))
    IN  ValuesList(rows, [i \in 1..Len(q) |-> q[Len(q) + 1 - i]])

\* not _latest_values or _latest_values[0] != new_value
HasChanged(latest, new_value) == latest = <<>> \/ latest[1] # new_value

\* cls(key=key, value=new_value).save()
KvSave(rows, key, new_value, t) ==
    Append(rows, [key |-> key, value |-> new_value, date_and_time |-> t])

update_status_if_changed(rows, key, new_value, t) ==
    IF HasChanged(LatestValues(rows, key), new_value)
    THEN KvSave(rows, key, new_value, t)
    ELSE rows

KvInit ==
    /\ kvRows = <<>>
    /\ kvWrites = <<>>
    /\ kvNow = 1

UpdateStatusIfChanged(key, new_value) ==
    /\ Len(kvWrites) < MaxWrites
    /\ kvRows' = update_status_if_changed(kvRows, key, new_value, kvNow)
    /\ kvNow' = kvNow + 1
    /\ kvWrites' = Append(kvWrites, [key |-> key, value |-> new_value])
    /\ UNCHANGED <<dbvars, concvars, xmlvars, resvars, miscvars>>

NextKV == \E key \in Keys, new_value \in Values : UpdateStatusIfChanged(key, new_value)

(***************************************************************************)
(* Interleaved update_status_if_changed calls.  The call is a query for the *)
(* latest values followed by an insert, with no lock and no constraint      *)
(* between them; each request is at one of the two.                         *)
(***************************************************************************)
\* the query: _latest_values = ...values_list('value', flat=True)
KvRead(r, key, new_value) ==
    /\ pc[r] = "idle"
    /\ Len(kvWrites) + Cardinality({q \in Requests : pc[q] = "kv_write"}) < MaxWrites
    /\ local' = [local EXCEPT ![r] = [key |-> key, new_value |-> new_value,
                                      latest |-> LatestValues(kvRows, key)]]
    /\ pc' = [pc EXCEPT ![r] = "kv_write"]
    /\ UNCHANGED <<dbvars, kvvars, xmlvars, resvars, miscvars>>

\* the test on what was read, and the insert
KvWrite(r) ==
    /\ pc[r] = "kv_write"
    /\ LET l == local[r]
       IN  /\ kvRows' = IF HasChanged(l.latest, l.new_value)
                        THEN KvSave(kvRows, l.key, l.new_value, kvNow)
                        ELSE kvRows
           /\ kvWrites' = Append(kvWrites, [key |-> l.key, value |-> l.new_value])
    /\ kvNow' = kvNow + 1
    /\ local' = [local EXCEPT ![r] = NoLocal]
    /\ pc' = [pc EXCEPT ![r] = "idle"]
    /\ UNCHANGED <<dbvars, xmlvars, resvars, miscvars>>

NextKVConc ==
    \/ \E r \in Requests, key \in Keys, new_value \in Values : KvRead(r, key, new_value)
    \/ \E r \in Requests : KvWrite(r)


\* the values written for a key, in call order, consecutive repeats collapsed
RECURSIVE Collapsed(_, _)
Collapsed(w, key) ==
    IF w = <<>> THEN <<>>
    ELSE LET before == Collapsed(SubSeq(w, 1, Len(w) - 1), key)
             x == w[Len(w)]
         IN  IF x.key # key THEN before
             ELSE IF before # <<>> /\ before[Len(before)] = x.value THEN before
             ELSE Append(before, x.value)

\* C8: after any sequence of calls the rows of each key, in timestamp order,
\* are the values written for it with consecutive repeats collapsed, and a
\* step only ever appends to the table.
C8_LogIsCollapsedWrites ==
    /\ [](\A key \in Keys :
            ValuesList(kvRows, OrderByDate(kvRows, FilterKey(kvRows, key)))
                = Collapsed(kvWrites, key))
    /\ [][ /\ Len(kvRows') >= Len(kvRows)
           /\ SubSeq(kvRows', 1, Len(kvRows)) = kvRows ]_vars

C8_Witness ==
    /\ kvWrites = << [key |-> "global_stats", value |-> "v1"],
                     [key |-> "global_stats", value |-> "v1"],
                     [key |-> "global_stats", value |-> "v2"] >>
    /\ Len(kvRows) = 2
    /\ kvRows[1].value = "v1" /\ kvRows[2].value = "v2"


(***************************************************************************)
(* XML text and xml.etree.ElementTree.  A text is empty, or not well        *)
(* formed, or one root element followed by a trailer; an element of a       *)
(* parsed tree carries the text that follows it (its tail).                 *)
(***************************************************************************)
WS == " "
Tails == {WS, "stray text"}
EmptyText == [kind |-> "empty"]
JunkText == [kind |-> "junk"]
XmlText(root, trailer) == [kind |-> "xml", root |-> root, trailer |-> trailer]

\* a dict is the set of its (key, value) pairs; a field that may be None
\* holds Null or Some(value)
Null == <<>>
Some(x) == <<x>>
ItemElems ==
    { [tag |-> "seg", attrib |-> {<<"id", "1">>}, source |-> "src1",
       reference |-> None, translations |-> <<"A">>],
      [tag |-> "seg", attrib |-> {<<"id", "2">>}, source |-> "src2",
       reference |-> "ref2", translations |-> <<"A", "B,C">>],
      [tag |-> "seg", attrib |-> {<<"id", "3">>}, source |-> None,
       reference |-> None, translations |-> <<"A">>] }

HitTexts ==
    {EmptyText, JunkText} \cup
    {XmlText(e, WS) :
        e \in [tag : {"hit"},
               attrib : { {<<"source-language", "ina">>, <<"target-language", "ces">>},
                          {<<"block-id", "1">>} },
               children : UNION {[1..n -> [elem : ItemElems, tail : Tails]] :
                                    n \in 0..MaxChildren}]}
ItemTexts == {EmptyText, JunkText} \cup {XmlText(e, t) : e \in ItemElems, t \in Tails}

\* fromstring(text): the root element, or ParseError with the parser's message
fromstring(text) ==
    IF text.kind = "xml" /\ text.trailer = WS
    THEN [ok |-> TRUE, root |-> text.root, msg |-> None]
    ELSE [ok |-> FALSE, root |-> None,
          msg |-> IF text.kind = "empty" THEN "no element found"
                  ELSE IF text.kind = "junk" THEN "not well-formed"
                  ELSE "junk after document element"]


\* tostring(child): the element as text, followed by its tail
tostring(child) == XmlText(child.elem, child.tail)

\* validate_segment_xml / validate_hit_xml (section 6 of the specification):
\* the root carries source-language and target-language; every child has a
\* source and at least one translation with a system attribute.
ValidSegment(e) == e.source # None /\ Len(e.translations) >= 1

validate_segment_xml(text) ==
    fromstring(text).ok /\ ValidSegment(fromstring(text).root)

validate_hit_xml(text) ==
    /\ fromstring(text).ok
    /\ LET root == fromstring(text).root
       IN  /\ {"source-language", "target-language"} \subseteq {kv[1] : kv \in root.attrib}
           /\ \A i \in 1..Len(root.children) : ValidSegment(root.children[i].elem)

(***************************************************************************)
(* HIT.reload_dynamic_fields                                               *)
(***************************************************************************)
HitReloadFields(h) ==
    IF h.hit_xml.kind = "empty" THEN h
    ELSE LET parsed == fromstring(h.hit_xml)
         IN  IF parsed.ok
             THEN [h EXCEPT !.hit_attributes = parsed.root.attrib]
             ELSE [h EXCEPT !.hit_attributes = {<<"note", parsed.msg>>}]

\* HIT(hit_xml=text): hit_attributes is the class attribute {} until reloaded
NewHIT(text) ==
    HitReloadFields([id |-> 0, hit_xml |-> text, hit_attributes |-> {},
                     fresh |-> TRUE])

(***************************************************************************)
(* RankingTask.reload_dynamic_fields                                       *)
(***************************************************************************)
TaskReloadFields(t) ==
    IF t.item_xml.kind = "empty" THEN t
    ELSE LET parsed == fromstring(t.item_xml)
         IN  IF parsed.ok
             THEN [t EXCEPT
                     !.attributes = Some(parsed.root.attrib),
                     !.source = IF parsed.root.source # None
                                THEN parsed.root.source ELSE @,
                     !.reference = IF parsed.root.reference # None
                                   THEN parsed.root.reference ELSE @,
                     !.translations = Some(parsed.root.translations)]
             ELSE [t EXCEPT !.source = None, !.reference = None,
                            !.translations = Null]

\* RankingTask(item_xml=text): the derived fields are class attributes, None
NewRankingTask(text) ==
    TaskReloadFields([item_xml |-> text, attributes |-> Null, source |-> None,
                      reference |-> None, translations |-> Null, fresh |-> TRUE])

(***************************************************************************)
(* HIT.save                                                                *)
(***************************************************************************)
\* the loop over the children of the tree: RankingTask(...).save() validates
\* each item_xml and raises ValidationError at the first that fails
RECURSIVE CreateItems(_, _, _)
CreateItems(children, i, rows) ==
    IF i > Len(children) THEN [rows |-> rows, exc |-> None]
    ELSE LET item_xml == tostring(children[i])
         IN  IF validate_segment_xml(item_xml)
             THEN CreateItems(children, i + 1, Append(rows, item_xml))
             ELSE [rows |-> rows, exc |-> "ValidationError"]

HitSaveFields(h, rows) ==
    IF h.id = 0
    THEN IF ~validate_hit_xml(h.hit_xml)
         THEN [hit |-> h, rows |-> rows, exc |-> "ValidationError"]
         ELSE LET created == CreateItems(fromstring(h.hit_xml).root.children, 1, rows)
              IN  [hit |-> [h EXCEPT !.id = 1], rows |-> created.rows,
                   exc |-> created.exc]
    ELSE [hit |-> h, rows |-> rows, exc |-> None]

XmlStart(texts) ==
    /\ hit \in {NewHIT(text) : text \in texts}
    /\ hitTasks = <<>>
    /\ hitSaved = [n |-> 0, xml |-> EmptyText]
    /\ task = NewRankingTask(EmptyText)
    /\ xmlExc = None


HitSave ==
    /\ hitSaved.n < MaxSaves
    /\ LET out == HitSaveFields(hit, hitTasks)
       IN  /\ hit' = out.hit
           /\ hitTasks' = out.rows
           /\ xmlExc' = out.exc
    /\ hitSaved' = [n |-> hitSaved.n + 1,
                    xml |-> IF hitSaved.n = 0 THEN hit.hit_xml ELSE hitSaved.xml]
    /\ UNCHANGED <<dbvars, concvars, kvvars, task, resvars, miscvars>>

\* hit.hit_xml = text
HitSetXml(text) ==
    /\ hit.id = 0
    /\ hit' = [hit EXCEPT !.hit_xml = text, !.fresh = FALSE]
    /\ UNCHANGED <<dbvars, concvars, kvvars, hitTasks, hitSaved, task, xmlExc, resvars, miscvars>>

HitReload ==
    /\ hit' = [HitReloadFields(hit) EXCEPT !.fresh = TRUE]
    /\ xmlExc' = None
    /\ UNCHANGED <<dbvars, concvars, kvvars, hitTasks, hitSaved, task, resvars, miscvars>>

\* a RankingTask row of the HIT is loaded
TaskLoad(i) ==
    /\ i \in 1..Len(hitTasks)
    /\ task' = NewRankingTask(hitTasks[i])
    /\ xmlExc' = None
    /\ UNCHANGED <<dbvars, concvars, kvvars, hit, hitTasks, hitSaved, resvars, miscvars>>

\* task.item_xml = text
TaskSetXml(text) ==
    /\ task' = [task EXCEPT !.item_xml = text, !.fresh = FALSE]
    /\ UNCHANGED <<dbvars, concvars, kvvars, hit, hitTasks, hitSaved, xmlExc, resvars, miscvars>>

TaskReload ==
    /\ task' = [TaskReloadFields(task) EXCEPT !.fresh = TRUE]
    /\ xmlExc' = None
    /\ UNCHANGED <<dbvars, concvars, kvvars, hit, hitTasks, hitSaved, resvars, miscvars>>

NextXml ==
    \/ HitSave
    \/ \E text \in {EmptyText, JunkText} : HitSetXml(text)
    \/ HitReload
    \/ \E i \in 1..MaxChildren : TaskLoad(i)
    \/ \E text \in ItemTexts : TaskSetXml(text)
    \/ TaskReload


(***************************************************************************)
(* RankingResult.  A string is the sequence of its parts: names, numbers    *)
(* and the separators "," and "+".                                          *)
(***************************************************************************)
Comma == ","
Plus == "+"
Str(part) == <<part>>
SKIPPED == Str("SKIPPED")
PLACEHOLDER == Str("PLACEHOLDER")

\* s.split(sep)
RECURSIVE Split(_, _)
Split(s, sep) ==
    IF \A i \in 1..Len(s) : s[i] # sep THEN <<s>>
    ELSE LET i == CHOOSE i \in 1..Len(s) : s[i] = sep /\ \A j \in 1..(i - 1) : s[j] # sep
         IN  <<SubSeq(s, 1, i - 1)>> \o Split(SubSeq(s, i + 1, Len(s)), sep)

\* s.replace(old, new)
Replace(s, old, new) == [i \in 1..Len(s) |-> IF s[i] = old THEN new ELSE s[i]]

\* sep.join(fields)
RECURSIVE Join(_, _)
Join(fields, sep) ==
    IF fields = <<>> THEN <<>>
    ELSE IF Len(fields) = 1 THEN fields[1]
    ELSE fields[1] \o <<sep>> \o Join(Tail(fields), sep)

\* int(x): the integer a field spells, if it spells one
Ints == -1..9

RECURSIVE SumSeq(_)
SumSeq(q) == IF q = <<>> THEN 0 ELSE q[1] + SumSeq(Tail(q))

(***************************************************************************)
(* The items a result can belong to: id, the id attribute of the source,    *)
(* and the system attribute of each translation, in slot order.  A system   *)
(* attribute names one system or, for a tie, several joined by commas.      *)
(***************************************************************************)
SysA == Str("A")
SysB == Str("B")
SysC == Str("C")
SysBC == <<"B", Comma, "C">>

Item(id, systems) == [id |-> id, srcid |-> "3", translations |-> systems]
SmallItems ==
    { Item(10, <<>>),
      Item(11, <<SysBC>>),
      Item(12, <<SysA, SysBC>>),
      Item(13, <<SysA, SysBC, SysA>>),
      Item(14, <<<<"A", Plus, "B">>, SysC>>) }
FiveItem == Item(15, <<SysA, SysB, SysC, Str("D"), Str("E")>>)
TiedFiveItem == Item(16, <<SysA, SysBC, SysA, SysA, SysA>>)
ResItems ==
    SmallItems \cup {FiveItem, TiedFiveItem,
                     Item(17, <<SysA, SysA, SysA, SysA, SysA, SysBC>>)}
SrcLang == "DA"
TrgLang == "Czech"

\* the rank lists a user can have submitted for an item
RanksFor(item) ==
    LET n == Len(item.translations)
    IN  IF item \in SmallItems THEN [1..n -> 1..MaxRank]
        ELSE IF item = FiveItem THEN {[i \in 1..n |-> i]}
        ELSE {[i \in 1..n |-> 1], [i \in 1..n |-> 1 + (i % 2)]}

\* raw_result: the ranks joined by commas
RawsFor(item) ==
    {Join([i \in 1..Len(ranks) |-> Str(ToString(ranks[i]))], Comma) :
        ranks \in RanksFor(item)}
        \cup {SKIPPED, <<>>, <<"1", Comma, "x">>}

ListResults(list) == [kind |-> "list", list |-> list]

\* not self.results
Falsy(rs) ==
    rs.kind = "none" \/ (rs.kind = "list" /\ rs.list = <<>>)

(***************************************************************************)
(* RankingResult.reload_dynamic_fields                                     *)
(***************************************************************************)
ResReloadFields(r) ==
    IF r.raw_result # <<>> /\ r.raw_result # SKIPPED
    THEN LET fields == Split(r.raw_result, Comma)
         IN  IF \A i \in 1..Len(fields) :
                    Len(fields[i]) = 1 /\ \E n \in Ints : ToString(n) = fields[i][1]
             THEN [r EXCEPT !.results =
                              ListResults([i \in 1..Len(fields) |->
                                  CHOOSE n \in Ints : ToString(n) = fields[i][1]]),
                            !.systems =
                              SumSeq([i \in 1..Len(r.item.translations) |->
                                  Len(Split(r.item.translations[i], Comma))])]
             ELSE [r EXCEPT !.results = [kind |-> "exc", list |-> <<>>]]
    ELSE r

\* RankingResult(item=item, user=user, raw_result=raw): results is the class
\* attribute None and systems the class attribute 0 until reloaded
NewRankingResult(item, user, raw) ==
    ResReloadFields([item |-> item, user |-> user, raw_result |-> raw,
                     results |-> [kind |-> "none", list |-> <<>>], systems |-> 0])

\* what the last call on the instance returned
Returned(op, expand, none, skipped, rows, e) ==
    [op |-> op, expand |-> expand, none |-> none, skipped |-> skipped,
     rows |-> rows, exc |-> e]
NoOut(op) == Returned(op, FALSE, FALSE, FALSE, <<>>, None)

ResStart(items) ==
    /\ res \in UNION {{NewRankingResult(item, user, raw) :
                            user \in {"alice"}, raw \in RawsFor(item)} :
                        item \in items}
    /\ resOut = NoOut("init")

ResIdle == ResStart({Item(10, <<>>)}) /\ res.raw_result = SKIPPED

\* result.raw_result = raw
ResSetRaw(raw) ==
    /\ raw \in RawsFor(res.item)
    /\ res' = [res EXCEPT !.raw_result = raw]
    /\ resOut' = NoOut("set_raw")
    /\ UNCHANGED <<dbvars, concvars, kvvars, xmlvars, miscvars>>

ResReload ==
    /\ res' = ResReloadFields(res)
    /\ resOut' = NoOut("reload")
    /\ UNCHANGED <<dbvars, concvars, kvvars, xmlvars, miscvars>>


(***************************************************************************)
(* The exports of a RankingResult.  Each operator gives what the call       *)
(* returns (ret) and the instance as the call leaves it (res).              *)
(***************************************************************************)
\* combinations(range(n), 2), as positions from 1
Combinations(n) ==
    LET RECURSIVE CombosFrom(_, _)
        CombosFrom(p, q) ==
            IF p >= n THEN <<>>
            ELSE IF q > n THEN CombosFrom(p + 1, p + 2)
            ELSE <<<<p, q>>>> \o CombosFrom(p, q + 1)
    IN  CombosFrom(1, 2)

\* product(range(m), range(n)), as positions from 1
Product(m, n) ==
    [k \in 1..(m * n) |-> <<((k - 1) \div n) + 1, ((k - 1) % n) + 1>>]

\* export_to_ranking_xml: the context handed to the template
export_to_ranking_xml(r) ==
    LET skipped == r.results.kind = "none"
        n == Len(r.item.translations)
    IN  IF skipped
        THEN [ret |-> Returned("ranking_xml", FALSE, FALSE, TRUE, <<>>, None), res |-> r]
        ELSE IF Len(r.results.list) < n
        THEN [ret |-> Returned("ranking_xml", FALSE, FALSE, FALSE, <<>>, "IndexError"),
              res |-> r]
        ELSE [ret |-> Returned("ranking_xml", FALSE, FALSE, FALSE,
                               [i \in 1..n |-> <<r.item.translations[i], r.results.list[i]>>],
                               None),
              res |-> r]

(***************************************************************************)
(* export_to_csv(expand_multi_systems)                                     *)
(***************************************************************************)
SlotEntries_NoExpand(system, rank, expand) ==
    << <<Replace(system, Comma, Plus), ToString(rank)>> >>

\* the names and ranks one slot contributes
SlotEntries(system, rank, expand) ==
    IF expand
    THEN LET local_systems == Split(system, Comma)
         IN  [j \in 1..Len(local_systems) |-> <<local_systems[j], ToString(rank)>>]
    ELSE << <<Replace(system, Comma, Plus), ToString(rank)>> >>

RECURSIVE EntriesFrom(_, _, _, _)
EntriesFrom(systems, ranks, expand, i) ==
    IF i > Len(systems) THEN <<>>
    ELSE SlotEntries(systems[i], ranks[i], expand)
             \o EntriesFrom(systems, ranks, expand, i + 1)

Padding_Always(n) == SlotsPerLine - (n % SlotsPerLine)

\* the placeholder systems that pad the names to a multiple of five
Padding(n) ==
    IF n % SlotsPerLine > 0 THEN SlotsPerLine - (n % SlotsPerLine) ELSE 0

\* one line per five entries: the base values, five (number, systemId)
\* pairs, five ranks
CsvLines(base, entries) ==
    [l \in 1..(Len(entries) \div SlotsPerLine) |->
        [base |-> base,
         systems |-> [k \in 1..SlotsPerLine |->
                        <<"-1", entries[(l - 1) * SlotsPerLine + k][1]>>],
         ranks |-> [k \in 1..SlotsPerLine |->
                        entries[(l - 1) * SlotsPerLine + k][2]]]]

export_to_csv(r, expand) ==
    LET systems == r.item.translations
        base == <<SrcLang, TrgLang, r.item.srcid, "-1", r.item.srcid, r.user>>
        \* if not self.results: self.results = [-1] * len(_systems)
        results1 == IF Falsy(r.results)
                    THEN ListResults([i \in 1..Len(systems) |-> -1])
                    ELSE r.results
        r1 == [r EXCEPT !.results = results1]
        entries == EntriesFrom(systems, results1.list, expand, 1)
    IN  IF Len(results1.list) < Len(systems)
        THEN [ret |-> Returned("csv", expand, FALSE, FALSE, <<>>, "IndexError"), res |-> r1]
        ELSE [ret |-> Returned("csv", expand, FALSE, FALSE,
                               CsvLines(base, entries \o
                                   [k \in 1..Padding(Len(entries)) |->
                                       <<PLACEHOLDER, "-1">>]),
                               None),
              res |-> r1]

(***************************************************************************)
(* export_to_pairwise_csv.  The (name, rank) pairs are collected in a set,  *)
(* whose iteration order is not specified: order is one enumeration of it.  *)
(***************************************************************************)
SystemsSet(r) ==
    {<<Replace(r.item.translations[i], Comma, Plus), r.results.list[i]>> :
        i \in 1..Len(r.item.translations)}

RECURSIVE Perms(_)
Perms(S) ==
    IF S = {} THEN {<<>>}
    ELSE UNION {{<<x>> \o p : p \in Perms(S \ {x})} : x \in S}

Orders(r) ==
    IF r.results.kind # "list" \/ Len(r.results.list) < Len(r.item.translations)
    THEN {<<>>}
    ELSE Perms(SystemsSet(r))

AppendNew_NoCheck(lines, line) == Append(lines, line)

\* if not csv_joint in csv_output: csv_output.append(csv_joint)
AppendNew(lines, line) ==
    IF \E i \in 1..Len(lines) : lines[i] = line THEN lines ELSE Append(lines, line)

RECURSIVE AppendAll(_, _)
AppendAll(lines, new) ==
    IF new = <<>> THEN lines
    ELSE AppendAll(AppendNew(lines, new[1]), Tail(new))

PairwiseLine(base, id, nameA, rankA, nameB, rankB) ==
    base \o <<nameA, ToString(rankA), nameB, ToString(rankB), ToString(id)>>

\* the pairs of singles within one multi-system, sharing its rank
IntraLines(base, id, expanded, rank) ==
    IF Len(expanded) > 1
    THEN LET c == Combinations(Len(expanded))
         IN  [k \in 1..Len(c) |->
                PairwiseLine(base, id, expanded[c[k][1]], rank, expanded[c[k][2]], rank)]
    ELSE <<>>

\* the body of the loop for one (sysA, sysB) of combinations(systems, 2)
PairLines(base, id, sysA, sysB, lines) ==
    LET expandedA == Split(sysA[1], Plus)
        expandedB == Split(sysB[1], Plus)
        p == Product(Len(expandedA), Len(expandedB))
        cross == [k \in 1..Len(p) |->
                    PairwiseLine(base, id, expandedA[p[k][1]], sysA[2],
                                 expandedB[p[k][2]], sysB[2])]
    IN  AppendAll(AppendAll(AppendAll(lines, cross),
                            IntraLines(base, id, expandedA, sysA[2])),
                  IntraLines(base, id, expandedB, sysB[2]))

RECURSIVE PairwiseFrom(_, _, _, _, _, _)
PairwiseFrom(base, id, order, c, k, lines) ==
    IF k > Len(c) THEN lines
    ELSE PairwiseFrom(base, id, order, c, k + 1,
                      PairLines(base, id, order[c[k][1]], order[c[k][2]], lines))

export_to_pairwise_csv(r, order) ==
    LET skipped == r.results.kind = "none"
        base == <<SrcLang, TrgLang, r.item.srcid, r.item.srcid, r.user>>
    IN  IF skipped
        THEN [ret |-> Returned("pairwise_csv", FALSE, TRUE, TRUE, <<>>, None), res |-> r]
        ELSE IF Len(r.results.list) < Len(r.item.translations)
        THEN [ret |-> Returned("pairwise_csv", FALSE, FALSE, FALSE, <<>>, "IndexError"),
              res |-> r]
        ELSE [ret |-> Returned("pairwise_csv", FALSE, FALSE, FALSE,
                               PairwiseFrom(base, r.item.id, order,
                                            Combinations(Len(order)), 1, <<>>),
                               None),
              res |-> r]

(***************************************************************************)
(* export_to_apf                                                           *)
(***************************************************************************)
Verdict_Swapped(rankA, rankB) ==
    IF rankA > rankB THEN "<" ELSE IF rankA < rankB THEN ">" ELSE "="

Verdict(rankA, rankB) ==
    IF rankA > rankB THEN ">"
    ELSE IF rankA < rankB THEN "<"
    ELSE IF rankA = rankB THEN "="
    ELSE "?"

ApfLines_ZeroBased(r, a, b) ==
    LET individualA == Split(r.item.translations[a], Comma)
        individualB == Split(r.item.translations[b], Comma)
        p == Product(Len(individualA), Len(individualB))
    IN  [k \in 1..Len(p) |->
            [judge |-> r.user,
             item |-> <<r.item.srcid, ToString(a - 1), ToString(b - 1)>>,
             systemA |-> individualA[p[k][1]],
             verdict |-> Verdict(r.results.list[a], r.results.list[b]),
             systemB |-> individualB[p[k][2]]]]

\* the triples of one (a, b) of combinations(range(5), 2)
ApfLines(r, a, b) ==
    LET individualA == Split(r.item.translations[a], Comma)
        individualB == Split(r.item.translations[b], Comma)
        p == Product(Len(individualA), Len(individualB))
    IN  [k \in 1..Len(p) |->
            [judge |-> r.user,
             item |-> <<r.item.srcid, ToString(a), ToString(b)>>,
             systemA |-> individualA[p[k][1]],
             verdict |-> Verdict(r.results.list[a], r.results.list[b]),
             systemB |-> individualB[p[k][2]]]]

RECURSIVE ApfFrom(_, _, _)
ApfFrom(r, c, k) ==
    IF k > Len(c) THEN <<>> ELSE ApfLines(r, c[k][1], c[k][2]) \o ApfFrom(r, c, k + 1)

export_to_apf(r) ==
    IF Falsy(r.results)
    THEN [ret |-> Returned("apf", FALSE, TRUE, TRUE, <<>>, None), res |-> r]
    ELSE IF Len(r.item.translations) < ApfSlots \/ Len(r.results.list) < ApfSlots
    THEN [ret |-> Returned("apf", FALSE, FALSE, FALSE, <<>>, "IndexError"), res |-> r]
    ELSE [ret |-> Returned("apf", FALSE, FALSE, FALSE,
                           ApfFrom(r, Combinations(ApfSlots), 1), None),
          res |-> r]

(***************************************************************************)
(* The calls on the instance.  A result whose raw_result did not parse      *)
(* holds the exception in results; its exports are not modelled.            *)
(***************************************************************************)
Call(outcome) ==
    /\ res.results.kind # "exc"
    /\ res' = outcome.res
    /\ resOut' = outcome.ret
    /\ UNCHANGED <<dbvars, concvars, kvvars, xmlvars, miscvars>>

ExportToRankingXml == Call(export_to_ranking_xml(res))
ExportToCsv(expand) == Call(export_to_csv(res, expand))
ExportToPairwiseCsv(order) == Call(export_to_pairwise_csv(res, order))
ExportToApf == Call(export_to_apf(res))

(***************************************************************************)
(* HIT.export_to_apf and HIT.compute_agreement_scores.  rs is the list of   *)
(* the RankingResult rows of the HIT's items, each loaded from its row.     *)
(* The scores are computed by nltk's AnnotationTask; nltk is what that      *)
(* computation does: it gives the scores or raises ZeroDivisionError.       *)
(***************************************************************************)
\* the outputs of the results that have one, joined; an exception of a
\* result's export leaves the call
hit_export_to_apf(rs) ==
    LET outs == [i \in 1..Len(rs) |-> export_to_apf(rs[i]).ret]
        RECURSIVE Joined(_)
        Joined(i) == IF i > Len(outs) THEN <<>>
                     ELSE (IF outs[i].none THEN <<>> ELSE outs[i].rows) \o Joined(i + 1)
    IN  IF \E i \in 1..Len(outs) : outs[i].exc # None
        THEN [exc |-> "IndexError", rows |-> <<>>]
        ELSE [exc |-> None, rows |-> Joined(1)]

compute_agreement_scores_Uncaught(rs, nltk) ==
    LET raw == hit_export_to_apf(rs)
    IN  IF raw.exc # None THEN [none |-> FALSE, exc |-> raw.exc, scores |-> <<>>]
        ELSE IF raw.rows = <<>> THEN [none |-> TRUE, exc |-> None, scores |-> <<>>]
        ELSE IF nltk = "ZeroDivisionError"
        THEN [none |-> FALSE, exc |-> "ZeroDivisionError", scores |-> <<>>]
        ELSE [none |-> FALSE, exc |-> None, scores |-> <<"alpha", "kappa", "pi", "S">>]

\* every line of the output has its three fields, so the IndexError of the
\* conversion to triples does not arise
compute_agreement_scores(rs, nltk) ==
    LET raw == hit_export_to_apf(rs)
    IN  IF raw.exc # None THEN [none |-> FALSE, exc |-> raw.exc, scores |-> <<>>]
        ELSE IF raw.rows = <<>> THEN [none |-> TRUE, exc |-> None, scores |-> <<>>]
        ELSE IF nltk = "ZeroDivisionError"
        THEN [none |-> TRUE, exc |-> None, scores |-> <<>>]
        ELSE [none |-> FALSE, exc |-> None, scores |-> <<"alpha", "kappa", "pi", "S">>]

\* hit.compute_agreement_scores(), the HIT holding the item of res with the
\* results stored for it; called for the items with five candidates, which
\* are those the APF format is written for
ComputeAgreementScores(raws, nltk) ==
    LET rs == [i \in 1..Len(raws) |-> NewRankingResult(res.item, res.user, raws[i])]
        ret == compute_agreement_scores(rs, nltk)
    IN  /\ Len(res.item.translations) = ApfSlots
        /\ \A i \in 1..Len(rs) : rs[i].results.kind # "exc"
        /\ resOut' = [op |-> "agreement", expand |-> FALSE, none |-> ret.none,
                      skipped |-> FALSE, rows |-> hit_export_to_apf(rs).rows,
                      exc |-> ret.exc, scores |-> ret.scores,
                      raws |-> raws, nltk |-> nltk]
        /\ UNCHANGED <<dbvars, concvars, kvvars, xmlvars, res, miscvars>>

NextRes ==
    \/ \E raw \in RawsFor(res.item) : ResSetRaw(raw)
    \/ ResReload
    \/ ExportToRankingXml
    \/ \E expand \in BOOLEAN : ExportToCsv(expand)
    \/ \E order \in Orders(res) : ExportToPairwiseCsv(order)
    \/ ExportToApf
    \/ \E n \in 0..2 : \E raws \in [1..n -> {res.raw_result, SKIPPED}] :
            \E nltk \in {"scores", "ZeroDivisionError"} :
                ComputeAgreementScores(raws, nltk)


(***************************************************************************)
(* HIT.hit_id.  HIT.__init__ gives an object without hit_id a random one,   *)
(* drawn again while a row with that hit_id exists; the first save() runs   *)
(* full_clean(), which rejects a hit_id that a row already has.             *)
(***************************************************************************)
HitObjs == {"o1", "o2", "o3"}

IdsInit == hitObjs = [o \in HitObjs |-> [hit_id |-> None, saved |-> FALSE, exc |-> None]]

SavedIds == {hitObjs[o].hit_id : o \in {q \in HitObjs : hitObjs[q].saved}}

\* HIT(): new_id is the value of uuid.uuid4().hex[:8] at which the loop of
\* _create_hit_id ends
HitConstruct(o, new_id) ==
    /\ hitObjs[o].hit_id = None
    /\ new_id \notin SavedIds
    /\ hitObjs' = [hitObjs EXCEPT ![o].hit_id = new_id]
    /\ UNCHANGED <<dbvars, concvars, kvvars, xmlvars, resvars, repair>>

\* the first save() of the object
HitInsert(o) ==
    /\ hitObjs[o].hit_id # None /\ ~hitObjs[o].saved
    /\ hitObjs' = IF hitObjs[o].hit_id \in SavedIds
                  THEN [hitObjs EXCEPT ![o].exc = "ValidationError"]
                  ELSE [hitObjs EXCEPT ![o].saved = TRUE, ![o].exc = None]
    /\ UNCHANGED <<dbvars, concvars, kvvars, xmlvars, resvars, repair>>

NextIds ==
    \/ \E o \in HitObjs, new_id \in {"0a", "0b", "0c"} : HitConstruct(o, new_id)
    \/ \E o \in HitObjs : HitInsert(o)

(***************************************************************************)
(* repair_cs_rest_xml.py.  A document is its text, character by character.  *)
(* The documents modelled are written with '&', ' ' and 'b'; of the repair  *)
(* patterns, the three below are those that can match such a document or    *)
(* what the patterns make of it.  The validator is                          *)
(* appraise.cs_rest.validators.validate_hits_xml_file: it raises            *)
(* ValidationError on a text with a bare ampersand and accepts the others.  *)
(***************************************************************************)
MaxLoops == 10
MaxText == 3

\* unicode.replace(s, old, new): every occurrence, from the left; t is the
\* value of s
unicode_replace(s, old, new) ==
    LET RECURSIVE From(_, _)
        From(t, i) ==
            IF i > Len(t) THEN <<>>
            ELSE IF i + Len(old) - 1 <= Len(t) /\ SubSeq(t, i, i + Len(old) - 1) = old
            THEN new \o From(t, i + Len(old))
            ELSE <<t[i]>> \o From(t, i + 1)
    IN  CHOOSE r \in {From(t, 1) : t \in {s}} : TRUE

XML_REPAIR_PATTERNS ==
    << << <<"&", " ">>, <<"&", "a", "m", "p", ";", " ">> >>,
       << <<"&", "a", "m", "p", " ">>, <<"&", "a", "m", "p", ";", " ">> >>,
       << <<"b", "&">>, <<"b", "&", "a", "m", "p", ";">> >> >>

ApplyPatterns_FirstOnly(text, k) ==
    unicode_replace(text, XML_REPAIR_PATTERNS[1][1], XML_REPAIR_PATTERNS[1][2])

\* for key, value in XML_REPAIR_PATTERNS: the patterns from the k-th on
RECURSIVE ApplyPatterns(_, _)
ApplyPatterns(text, k) ==
    IF k > Len(XML_REPAIR_PATTERNS) THEN text
    ELSE ApplyPatterns(unicode_replace(text, XML_REPAIR_PATTERNS[k][1],
                                       XML_REPAIR_PATTERNS[k][2]), k + 1)

\* TRUE: the validator returns; FALSE: it raises ValidationError
validate_hits_xml_file(text) ==
    \A i \in 1..Len(text) :
        text[i] = "&" => /\ i + 4 <= Len(text)
                         /\ SubSeq(text, i + 1, i + 4) = <<"a", "m", "p", ";">>

\* the script has read hits-file and the loop has not begun
RepairStart(files, flags) ==
    /\ repair \in [pc : {"loop"}, infile : files, dry_run_enabled : flags,
                    hits_xml_string : files, loop_counter : {0},
                    validated : {<<>>}, fixed : {<<>>}]
    /\ repair.hits_xml_string = repair.infile

\* one turn of `while loop_counter < 10`
RepairLoop ==
    /\ repair.pc = "loop"
    /\ IF repair.loop_counter < MaxLoops
       THEN LET ok == validate_hits_xml_file(repair.hits_xml_string)
            IN  repair' = [repair EXCEPT
                    !.loop_counter = @ + 1,
                    !.validated = Append(@, ok),
                    !.hits_xml_string = IF ok THEN @ ELSE ApplyPatterns(@, 1),
                    !.pc = IF ok THEN "write" ELSE "loop"]
       ELSE repair' = [repair EXCEPT !.pc = "write"]
    /\ UNCHANGED <<dbvars, concvars, kvvars, xmlvars, resvars, hitObjs>>

\* if not args.dry_run_enabled: the text is written to hits-file.fixed
RepairWrite ==
    /\ repair.pc = "write"
    /\ repair' = [repair EXCEPT
            !.fixed = IF repair.dry_run_enabled THEN <<>>
                      ELSE <<repair.hits_xml_string>>,
            !.pc = "done"]
    /\ UNCHANGED <<dbvars, concvars, kvvars, xmlvars, resvars, hitObjs>>

NextRepair == RepairLoop \/ RepairWrite

(***************************************************************************)
(* The specifications.  Each starts the part it is about in every state     *)
(* that part can start in, and the parts it leaves alone in one.            *)
(***************************************************************************)
DbIdle == DbStart({[h \in HITs |-> FALSE]})
RepairIdle == RepairStart({<<>>}, {TRUE})
XmlIdle == XmlStart({EmptyText})

Init ==
    /\ DbStart({[h \in HITs |-> FALSE], [h \in HITs |-> h = "h2"]})
    /\ KvInit /\ XmlIdle /\ ResIdle /\ IdsInit /\ RepairIdle
Spec == Init /\ [][Next]_vars

SpecConc == Init /\ [][NextConc]_vars

\* the admin actions and the recount, over the database as submissions
\* fill it
NextAdmin ==
    \/ \E u \in Users, h \in HITs : SaveResult(u, h)
    \/ \E lp \in LanguagePairArgs : ComputeRemainingHits(lp)
    \/ \E queryset \in SUBSET HITs \ {{}} : CompleteHits(queryset)
    \/ \E queryset \in SUBSET HITs \ {{}}, value \in BOOLEAN :
            SetHitsActive(queryset, value)
SpecAdmin == Init /\ [][NextAdmin]_vars

InitKV == DbIdle /\ KvInit /\ XmlIdle /\ ResIdle /\ IdsInit /\ RepairIdle
SpecKV == InitKV /\ [][NextKV]_vars
SpecKVConc == InitKV /\ [][NextKVConc]_vars

InitXml == DbIdle /\ KvInit /\ XmlStart(HitTexts) /\ ResIdle /\ IdsInit /\ RepairIdle
SpecXml == InitXml /\ [][NextXml]_vars

InitRes == DbIdle /\ KvInit /\ XmlIdle /\ ResStart(ResItems) /\ IdsInit /\ RepairIdle
SpecRes == InitRes /\ [][NextRes]_vars

SpecIds == InitKV /\ [][NextIds]_vars

InitRepair ==
    /\ DbIdle /\ KvInit /\ XmlIdle /\ ResIdle /\ IdsInit
    /\ RepairStart(UNION {[1..n -> {"&", " ", "b"}] : n \in 0..MaxText}, BOOLEAN)
\* the script runs on: each of its steps is taken in the end
SpecRepair == InitRepair /\ [][NextRepair]_vars /\ WF_vars(NextRepair)

IsMalformed(text) == text.kind # "empty" /\ ~fromstring(text).ok

\* C9: a first save of a HIT whose XML is valid and has k children leaves
\* exactly k RankingTask rows, one per child in order, each with a derived
\* source; later saves add none.
C9_ValidXmlGivesKTasks ==
    (hitSaved.n >= 1 /\ validate_hit_xml(hitSaved.xml)) =>
        LET children == fromstring(hitSaved.xml).root.children
        IN  /\ xmlExc # "ValidationError"
            /\ Len(hitTasks) = Len(children)
            /\ \A i \in 1..Len(hitTasks) :
                  /\ hitTasks[i] = tostring(children[i])
                  /\ NewRankingTask(hitTasks[i]).source # None

\* C10: after reload_dynamic_fields on malformed XML no exception has left
\* the call; a HIT's hit_attributes is the diagnostic map with the parser's
\* message, and all derived fields of a RankingTask are None.
C10_MalformedClearsDerived ==
    /\ xmlExc # "ParseError"
    /\ (hit.fresh /\ IsMalformed(hit.hit_xml)) =>
            hit.hit_attributes = {<<"note", fromstring(hit.hit_xml).msg>>}
    /\ (task.fresh /\ IsMalformed(task.item_xml)) =>
            /\ task.attributes = Null
            /\ task.source = None
            /\ task.reference = None
            /\ task.translations = Null

(***************************************************************************)
(* Claims about the HIT life cycle and the assignment mappings.            *)
(***************************************************************************)
Submitters(h) == {u \in Users : results[<<u, h>>] > 0}
RowsOfUserProject(m, u, p) == SumOver(m, {<<u, p, h>> : h \in HITs})

\* C1 as stated: in every state in which at least MAX_USERS_PER_HIT distinct
\* users have submitted results for a HIT, that HIT is completed.
C1_CompletedOnceSubmitted ==
    \A h \in HITs :
        Cardinality(Submitters(h)) >= MAX_USERS_PER_HIT => completed[h]

\* C1 amended: completed is set lazily, not by the save of a result.  In every
\* reachable state a run of HIT.compute_remaining_hits leaves completed every
\* active, non-MTurk HIT of its language pair that has at least
\* MAX_USERS_PER_HIT users recorded in hit.users; and a step (a save, a
\* deletion, an allocation, compute_remaining_hits or the admin action
\* complete_hits) sets a HIT's completed flag only if that many users are
\* recorded in hit.users.
C1_CompletedByRecount ==
    /\ [](\A lp \in LanguagePairArgs, h \in HITs :
            ( /\ active[h] /\ ~mturk_only[h]
              /\ (lp # None => language_pair(h) = lp)
              /\ Cardinality(hitUsers[h]) >= MAX_USERS_PER_HIT )
                => compute_remaining_hits(lp).completed[h])
    /\ [][ \A h \in HITs :
              (~completed[h] /\ completed'[h])
                  => Cardinality(hitUsers[h]) >= MAX_USERS_PER_HIT ]_vars

C1_Witness ==
    \E h \in HITs, u \in Users :
        completed[h] /\ u \in hitUsers[h] /\ results[<<u, h>>] > 2

\* C2 as stated: a deletion of a result of a completed HIT that leaves fewer
\* than MAX_USERS_PER_HIT users with results for it reverts completed to false.
C2_CompletedReverts ==
    [][ \A h \in HITs, u \in Users :
            ( /\ completed[h]
              /\ results'[<<u, h>>] < results[<<u, h>>]
              /\ Cardinality({v \in Users : results'[<<v, h>>] > 0}) < MAX_USERS_PER_HIT )
                => ~completed'[h]
      ]_vars

\* C2 amended: there is no way back from completed.  No save or deletion of a
\* result, allocation, compute_remaining_hits or complete_hits resets the
\* flag: a HIT that is completed before such a step is completed after it.
C2_CompletedStays ==
    [][ \A h \in HITs : completed[h] => completed'[h] ]_vars

C2_Witness ==
    \E h \in HITs :
        completed[h] /\ Submitters(h) = {} /\ hitUsers[h] = {} /\ exc = "AttributeError"

\* C3: the post_delete receiver removes the user from hit.users, recomputes the
\* user's next assignment and returns without raising: no exception ever
\* leaves it.
C3_DeleteHandlerReturns == exc = None

C5_Reentrant ==
    /\ [](\A u \in Users, p \in Projects, lp \in LanguagePairArgs \ {None} :
            CurrentHits(DB, u, p, lp) # {} =>
                /\ RowsOfUserProject(mappings, u, p) = 1
                /\ ComputeNextTask(DB, u, p, lp).ret \in CurrentHits(DB, u, p, lp)
                /\ ComputeNextTask(DB, u, p, lp).db = DB)
    /\ [](\A u \in Users, h \in HITs : SumOver(mappings, {<<u, q, h>> : q \in Projects}) <= 1)
    /\ [][ \A u \in Users, p \in Projects, h \in HITs :
              ( /\ mappings[<<u, p, h>>] > 0
                /\ \A g \in HITs : results'[<<u, g>>] = results[<<u, g>>] )
                  => mappings'[<<u, p, h>>] = mappings[<<u, p, h>>]
         ]_vars

C5_Witness ==
    \E u \in Users, p \in Projects, h \in HITs :
        /\ mappings[<<u, p, h>>] = 1
        /\ ComputeNextTask(DB, u, p, language_pair(h)).ret = h
        /\ \E g \in HITs \ {h} : Eligible(DB, u, p, language_pair(h)) = {g}

\* C6: at most one live UserHITMapping row per (user, project), under any
\* interleaving of requests.
C6_OneMappingPerUserProject ==
    \A u \in Users, p \in Projects : RowsOfUserProject(mappings, u, p) <= 1

\* C7: hit.users never holds more than MAX_USERS_PER_HIT users.
C7_AtMostMaxUsers ==
    \A h \in HITs : Cardinality(hitUsers[h]) <= MAX_USERS_PER_HIT

\* C11: after reload_dynamic_fields the derived fields are those of a freshly
\* constructed record with the same raw data, whatever they held before (and
\* so a second call in a row changes nothing).
C11_ReloadIsFunctionOfRaw ==
    /\ hit.fresh =>
            /\ hit.hit_attributes = NewHIT(hit.hit_xml).hit_attributes
            /\ HitReloadFields(hit) = hit
    /\ task.fresh =>
            /\ task = NewRankingTask(task.item_xml)
            /\ TaskReloadFields(task) = task

(***************************************************************************)
(* Claims about the exports of a RankingResult.                            *)
(***************************************************************************)
\* C12: a result whose raw_result is "SKIPPED" has an empty or absent rank
\* list, and every export treats it as skipped: the ranking XML has
\* skipped = true and no translations, the pairwise CSV and APF exports
\* return None; and the ranking XML is skipped only when the rank list is
\* empty or absent.  (The state between an assignment to raw_result and the
\* next call is left out.)
C12_SkippedIsSkipped ==
    /\ (res.raw_result = SKIPPED /\ resOut.op # "set_raw") =>
            /\ Falsy(res.results)
            /\ resOut.op = "ranking_xml" => (resOut.skipped /\ resOut.rows = <<>>)
            /\ resOut.op \in {"pairwise_csv", "apf"} => resOut.none
    /\ (resOut.op = "ranking_xml" /\ resOut.skipped) => Falsy(res.results)

\* C13: the exports are pure: an export leaves the instance, its rank list
\* included, as it found it.
C13_ExportsArePure ==
    [][ resOut'.op \in {"ranking_xml", "csv", "pairwise_csv", "apf"}
            => res' = res ]_vars

\* C14: with expand_multi_systems false, export_to_csv on an item with n
\* candidate slots returns ceil(n / 5) rows of five (number, systemId) pairs
\* followed by five ranks; the slots fill the rows in order, and only the
\* places after the n-th, in the last row, hold PLACEHOLDER with rank -1.
C14_FlatCsvRows ==
    (resOut.op = "csv" /\ ~resOut.expand /\ resOut.exc = None) =>
        LET systems == res.item.translations
            n == Len(systems)
            rows == resOut.rows
        IN  /\ Len(rows) = (n + 4) \div 5
            /\ \A l \in 1..Len(rows) :
                    /\ Len(rows[l].systems) = 5
                    /\ Len(rows[l].ranks) = 5
                    /\ \A k \in 1..5 :
                          LET idx == (l - 1) * 5 + k
                          IN  IF idx <= n
                              THEN /\ rows[l].systems[k] =
                                        <<"-1", Replace(systems[idx], Comma, Plus)>>
                                   /\ rows[l].ranks[k] =
                                        ToString(res.results.list[idx])
                              ELSE /\ rows[l].systems[k] = <<"-1", PLACEHOLDER>>
                                   /\ rows[l].ranks[k] = "-1"

\* a six-slot item exported on two rows, the second one padded
C14_Witness ==
    /\ resOut.op = "csv" /\ ~resOut.expand
    /\ Len(res.item.translations) = 6
    /\ Len(resOut.rows) = 2
    /\ resOut.rows[2].systems[2] = <<"-1", PLACEHOLDER>>
    /\ resOut.rows[2].systems[1] # <<"-1", PLACEHOLDER>>

\* C15 as stated: with expand_multi_systems true every tied multi-system slot
\* has one row per constituent system (its constituents lie in rows of their
\* own, each with the rank of the group); with it false the group appears
\* once, its names joined by '+'.
C15_OneRowPerConstituent ==
    (resOut.op = "csv" /\ resOut.exc = None) =>
        LET systems == res.item.translations
            rows == resOut.rows
            Holds(l, name, rank) ==
                \E k \in 1..5 : /\ rows[l].systems[k] = <<"-1", name>>
                                 /\ rows[l].ranks[k] = ToString(rank)
        IN  \A i \in 1..Len(systems) :
                LET local_systems == Split(systems[i], Comma)
                    rank == res.results.list[i]
                IN  IF resOut.expand
                    THEN Len(local_systems) > 1 =>
                            \E f \in [1..Len(local_systems) -> 1..Len(rows)] :
                                /\ \A j \in 1..Len(local_systems) :
                                        Holds(f[j], local_systems[j], rank)
                                /\ \A j1, j2 \in 1..Len(local_systems) :
                                        j1 # j2 => f[j1] # f[j2]
                    ELSE \E l \in 1..Len(rows) :
                            Holds(l, Replace(systems[i], Comma, Plus), rank)

\* C15 as the code has it: with expand_multi_systems true every slot gives one
\* (number, systemId) entry per constituent system, in slot order, each with
\* the rank of its slot; the entries fill rows of five, and the places after
\* the last entry hold PLACEHOLDER with rank -1.  With it false the slot
\* gives one entry, its names joined by '+'.
C15_OneEntryPerConstituent ==
    (resOut.op = "csv" /\ resOut.exc = None) =>
        LET systems == res.item.translations
            rows == resOut.rows
            \* the place of constituent j of slot i, counting every
            \* constituent of the slots before it
            EntryIndex(sys, i, j) ==
                SumSeq([m \in 1..(i - 1) |-> Len(Split(sys[m], Comma))]) + j
            Entry(p) == <<rows[((p - 1) \div 5) + 1].systems[((p - 1) % 5) + 1][2],
                          rows[((p - 1) \div 5) + 1].ranks[((p - 1) % 5) + 1]>>
            total == IF resOut.expand
                     THEN EntryIndex(systems, Len(systems) + 1, 0)
                     ELSE Len(systems)
        IN  /\ Len(rows) = (total + 4) \div 5
            /\ \A l \in 1..Len(rows) :
                    Len(rows[l].systems) = 5 /\ Len(rows[l].ranks) = 5
            /\ \A i \in 1..Len(systems) :
                    LET local_systems == Split(systems[i], Comma)
                        rank == ToString(res.results.list[i])
                    IN  IF resOut.expand
                        THEN \A j \in 1..Len(local_systems) :
                                Entry(EntryIndex(systems, i, j)) =
                                    <<local_systems[j], rank>>
                        ELSE Entry(i) = <<Replace(systems[i], Comma, Plus), rank>>
            /\ \A p \in (total + 1)..(5 * Len(rows)) :
                    Entry(p) = <<PLACEHOLDER, "-1">>

\* an item with a two-system slot exported with expand_multi_systems true:
\* both constituents lie in the first row, with the rank of their slot
C15_Witness ==
    /\ resOut.op = "csv" /\ resOut.expand
    /\ Len(res.item.translations) >= 2
    /\ res.item.translations[2] = SysBC
    /\ res.results.kind = "list" /\ res.results.list[2] = 2
    /\ resOut.rows[1].systems[2] = <<"-1", SysB>>
    /\ resOut.rows[1].systems[3] = <<"-1", SysC>>
    /\ resOut.rows[1].ranks[2] = "2" /\ resOut.rows[1].ranks[3] = "2"

\* C16: the output of export_to_pairwise_csv on a result that is not skipped
\* contains no two identical rows.
C16_NoIdenticalRows ==
    (resOut.op = "pairwise_csv" /\ ~resOut.none /\ resOut.exc = None) =>
        \A i, j \in 1..Len(resOut.rows) :
            i # j => resOut.rows[i] # resOut.rows[j]

\* three (name, rank) entries, one of them a multi-system whose inner pair
\* comes up with both of the other entries
C16_Witness ==
    /\ resOut.op = "pairwise_csv" /\ ~resOut.none
    /\ res.results.kind = "list"
    /\ Len(res.results.list) = Len(res.item.translations)
    /\ Cardinality(SystemsSet(res)) = 3
    /\ \E e \in SystemsSet(res) : Len(Split(e[1], Plus)) > 1
    /\ Len(resOut.rows) = 6

\* C17: for every two distinct (system-group, rank) entries of a result that
\* is not skipped, export_to_pairwise_csv emits a row for every element of
\* the cross product of their constituent systems, with the ranks of the two
\* groups and the item id as rankingID.
C17_CrossProductRows ==
    (resOut.op = "pairwise_csv" /\ ~resOut.none /\ resOut.exc = None) =>
        LET systems == res.item.translations
            base == <<SrcLang, TrgLang, res.item.srcid, res.item.srcid, res.user>>
            Row(a, ra, b, rb) ==
                base \o <<a, ToString(ra), b, ToString(rb), ToString(res.item.id)>>
            Emitted(row) == \E l \in 1..Len(resOut.rows) : resOut.rows[l] = row
        IN  \A i, j \in 1..Len(systems) :
                LET ri == res.results.list[i]
                    rj == res.results.list[j]
                    ci == Split(systems[i], Comma)
                    cj == Split(systems[j], Comma)
                IN  <<systems[i], ri>> # <<systems[j], rj>> =>
                        \A a \in 1..Len(ci), b \in 1..Len(cj) :
                            \/ Emitted(Row(ci[a], ri, cj[b], rj))
                            \/ Emitted(Row(cj[b], rj, ci[a], ri))

\* C18: for every candidate group of more than one constituent system of a
\* result that is not skipped, export_to_pairwise_csv emits a row for every
\* pair of the group's constituents, both with the rank of the group, also
\* when the group is the only candidate of the item.
C18_IntraGroupRows ==
    (resOut.op = "pairwise_csv" /\ ~resOut.none /\ resOut.exc = None) =>
        LET systems == res.item.translations
            base == <<SrcLang, TrgLang, res.item.srcid, res.item.srcid, res.user>>
            Row(a, ra, b, rb) ==
                base \o <<a, ToString(ra), b, ToString(rb), ToString(res.item.id)>>
            Emitted(row) == \E l \in 1..Len(resOut.rows) : resOut.rows[l] = row
        IN  \A i \in 1..Len(systems) :
                LET r == res.results.list[i]
                    c == Split(systems[i], Comma)
                IN  \A a, b \in 1..Len(c) :
                        a < b => \/ Emitted(Row(c[a], r, c[b], r))
                                 \/ Emitted(Row(c[b], r, c[a], r))

\* C19: on an item of five candidates, export_to_apf on a result that is not
\* skipped emits, for each of the 10 position pairs a < b, one triple per
\* element of systems(a) x systems(b) and nothing else; a triple is
\* judge, sourceIndex.a.b, systemA op systemB, where op is '>' iff
\* rank[a] > rank[b], '<' iff rank[a] < rank[b] and '=' iff they are equal,
\* and never '?'.
C19_ApfTriples ==
    ( /\ resOut.op = "apf" /\ ~resOut.none /\ resOut.exc = None
      /\ Len(res.item.translations) = 5 ) =>
        LET systems == res.item.translations
            ranks == res.results.list
            rows == resOut.rows
            Individual(a) == Split(systems[a], Comma)
            Pairs == {ab \in (1..5) \X (1..5) : ab[1] < ab[2]}
            Count(ab) == Len(Individual(ab[1])) * Len(Individual(ab[2]))
            RECURSIVE Sum(_)
            Sum(S) == IF S = {} THEN 0
                      ELSE LET x == CHOOSE y \in S : TRUE
                           IN  Count(x) + Sum(S \ {x})
        IN  /\ Len(rows) = Sum(Pairs)
            /\ \A l \in 1..Len(rows) : rows[l].verdict \in {">", "<", "="}
            /\ \A ab \in Pairs :
                  \A i \in 1..Len(Individual(ab[1])), j \in 1..Len(Individual(ab[2])) :
                    \E l \in 1..Len(rows) :
                        /\ rows[l].judge = res.user
                        /\ rows[l].item = <<res.item.srcid, ToString(ab[1]),
                                            ToString(ab[2])>>
                        /\ rows[l].systemA = Individual(ab[1])[i]
                        /\ rows[l].systemB = Individual(ab[2])[j]
                        /\ (rows[l].verdict = ">") <=> (ranks[ab[1]] > ranks[ab[2]])
                        /\ (rows[l].verdict = "<") <=> (ranks[ab[1]] < ranks[ab[2]])
                        /\ (rows[l].verdict = "=") <=> (ranks[ab[1]] = ranks[ab[2]])

\* five slots, one of them a two-system slot, with ranks that differ: 14
\* triples, B and C each compared with the A of the third slot
C19_Witness ==
    /\ resOut.op = "apf" /\ ~resOut.none
    /\ res.item = TiedFiveItem
    /\ res.results.list[2] # res.results.list[3]
    /\ Len(resOut.rows) = 14
    /\ \E l \in 1..14 : /\ resOut.rows[l].item = <<"3", "2", "3">>
                          /\ resOut.rows[l].systemA = SysC
                          /\ resOut.rows[l].verdict # "="

\* C20 as stated: for user alice, source index 3, systems A, B, C, D, E in
\* slot order and ranks 1, 2, 3, 4, 5, export_to_apf emits alice,3.1.2,A>B.
C20_AliceLine_Greater ==
    ( /\ resOut.op = "apf" /\ res.user = "alice" /\ res.item = FiveItem
      /\ res.results = ListResults(<<1, 2, 3, 4, 5>>) ) =>
        \E l \in 1..Len(resOut.rows) :
            resOut.rows[l] = [judge |-> "alice", item |-> <<"3", "1", "2">>,
                              systemA |-> SysA, verdict |-> ">", systemB |-> SysB]

\* C20 as the code has it: for the same result export_to_apf emits
\* alice,3.1.2,A<B: the sign compares the rank numbers, so the better
\* system, the one of the lower rank, is on the left of '<'.
C20_AliceLine_Less ==
    ( /\ resOut.op = "apf" /\ res.user = "alice" /\ res.item = FiveItem
      /\ res.results = ListResults(<<1, 2, 3, 4, 5>>) ) =>
        /\ resOut.exc = None /\ ~resOut.none
        /\ \E l \in 1..Len(resOut.rows) :
            resOut.rows[l] = [judge |-> "alice", item |-> <<"3", "1", "2">>,
                              systemA |-> SysA, verdict |-> "<", systemB |-> SysB]

C20_Witness ==
    /\ resOut.op = "apf" /\ res.user = "alice" /\ res.item = FiveItem
    /\ res.results = ListResults(<<1, 2, 3, 4, 5>>)
    /\ Len(resOut.rows) = 10
    /\ resOut.rows[1].systemA = SysA /\ resOut.rows[1].systemB = SysB

\* C21: on a HIT whose items have five candidates, compute_agreement_scores
\* raises nothing; it returns None when the HIT has no APF triples (no
\* result, or every result skipped) or a score computation divides by zero,
\* and the 4-tuple (alpha, kappa, pi, S) otherwise.
C21_AgreementScoresOrNone ==
    (resOut.op = "agreement" /\ Len(res.item.translations) = 5) =>
        LET NoTriples == \A i \in 1..Len(resOut.raws) :
                            resOut.raws[i] \in {SKIPPED, <<>>}
        IN  /\ resOut.exc = None
            /\ NoTriples <=> resOut.rows = <<>>
            /\ resOut.none <=> (NoTriples \/ resOut.nltk = "ZeroDivisionError")
            /\ ~resOut.none => resOut.scores = <<"alpha", "kappa", "pi", "S">>

\* a HIT with a skipped and a ranked result, whose scores divide by zero
C21_Witness ==
    /\ resOut.op = "agreement" /\ res.item = FiveItem
    /\ Len(resOut.raws) = 2
    /\ resOut.raws[1] = SKIPPED /\ resOut.raws[2] \notin {SKIPPED, <<>>}
    /\ Len(resOut.rows) = 10
    /\ resOut.nltk = "ZeroDivisionError" /\ resOut.none

\* C22: no two HITs share a hit_id, also when several HITs are constructed
\* before any of them is saved, and the hit_id of a HIT never changes once
\* it has one.
C22_HitIdUniqueImmutable ==
    /\ [](\A o1, o2 \in HitObjs :
            (o1 # o2 /\ hitObjs[o1].hit_id # None /\ hitObjs[o2].hit_id # None)
                => hitObjs[o1].hit_id # hitObjs[o2].hit_id)
    /\ [][\A o \in HitObjs :
            hitObjs[o].hit_id # None => hitObjs'[o].hit_id = hitObjs[o].hit_id]_vars

C24_RecountIdempotent ==
    /\ [](\A lp \in LanguagePairArgs :
            LET out == compute_remaining_hits(lp)
            IN  \A h \in HITs :
                  /\ ( /\ active[h] /\ ~mturk_only[h]
                       /\ (lp # None => language_pair(h) = lp)
                       /\ Cardinality(hitUsers[h]) >= MAX_USERS_PER_HIT )
                        => out.completed[h]
                  /\ (out.completed[h] /\ ~completed[h])
                        => Cardinality(hitUsers[h]) >= MAX_USERS_PER_HIT)
    /\ [][ \A lp \in LanguagePairArgs :
                ComputeRemainingHits(lp) =>
                    /\ compute_remaining_hits(lp)'.available
                            = compute_remaining_hits(lp).available
                    /\ compute_remaining_hits(lp)'.completed = completed' ]_vars

\* a recount has completed one HIT and left another, which still counts
C24_Witness ==
    \E h, g \in HITs :
        /\ completed[h] /\ active[h] /\ ~mturk_only[h]
        /\ Cardinality(hitUsers[h]) >= MAX_USERS_PER_HIT
        /\ ~completed[g] /\ active[g] /\ ~mturk_only[g] /\ hitUsers[g] = {}
        /\ compute_remaining_hits(None).available = 1
        /\ compute_remaining_hits(None).completed = completed

\* C25: every write of a UserHITMapping row sets the assigned time of the
\* mapped HIT to the current time: after the write that time is not null and
\* no HIT has a later one, and the order of the times assigned before is
\* kept; so a HIT with a live mapping always has an assigned time.
C25_MappingWriteAssigns ==
    /\ [](\A u \in Users, p \in Projects, h \in HITs :
            mappings[<<u, p, h>>] > 0 => assigned[h] # 0)
    /\ [][ \A u \in Users, p \in Projects, h \in HITs :
                mappings'[<<u, p, h>>] > mappings[<<u, p, h>>] =>
                    /\ assigned'[h] # 0
                    /\ \A g \in HITs : assigned'[g] <= assigned'[h]
                    /\ \A g1, g2 \in HITs \ {h} :
                          /\ assigned[g1] = 0 <=> assigned'[g1] = 0
                          /\ assigned[g1] < assigned[g2]
                                => assigned'[g1] < assigned'[g2] ]_vars

\* a HIT that was assigned before is assigned again, after the other HIT
C25_Witness ==
    \E u1, u2 \in Users, p \in Projects, h, g \in HITs :
        /\ u1 # u2 /\ h # g
        /\ mappings[<<u1, p, h>>] > 0 /\ mappings[<<u2, p, g>>] > 0
        /\ assigned[g] # 0 /\ assigned[g] < assigned[h]
        /\ results[<<u1, g>>] > 0

\* C26: also when two update_status_if_changed calls for the same key and
\* the same new value interleave, the log never has two consecutive rows of
\* a key with the same value.
C26_NoRepeatedValue ==
    \A key \in Keys :
        LET latest == LatestValues(kvRows, key)
        IN  \A i \in 1..(Len(latest) - 1) : latest[i] # latest[i + 1]

\* C27: the repair loop of repair_cs_rest_xml.py terminates; it validates
\* the document at most 10 times and not again after a validation that
\* succeeds, it applies the whole list of repair patterns once after each
\* validation that fails, and the .fixed file is written, with the text as
\* the loop leaves it, exactly when --dry-run is not given.
C27_RepairTerminates ==
    /\ <>(repair.pc = "done")
    /\ [](LET v == repair.validated
          IN  /\ Len(v) <= 10 /\ Len(v) = repair.loop_counter
              /\ \A i \in 1..Len(v) : v[i] => i = Len(v)
              /\ (Len(v) > 0 /\ v[Len(v)]) => repair.pc # "loop"
              /\ repair.pc # "loop" => (Len(v) = 10 \/ (Len(v) > 0 /\ v[Len(v)]))
              /\ Len(v) = 0 => repair.hits_xml_string = repair.infile
              /\ repair.pc # "done" => repair.fixed = <<>>
              /\ repair.pc = "done" =>
                    IF repair.dry_run_enabled THEN repair.fixed = <<>>
                    ELSE repair.fixed = <<repair.hits_xml_string>>)
    /\ [][IF Len(repair'.validated) = Len(repair.validated)
          THEN repair'.hits_xml_string = repair.hits_xml_string
          ELSE /\ Len(repair'.validated) = Len(repair.validated) + 1
               /\ IF repair'.validated[Len(repair'.validated)]
                  THEN repair'.hits_xml_string = repair.hits_xml_string
                  ELSE \E t1 \in {unicode_replace(repair.hits_xml_string,
                                       <<"&", " ">>,
                                       <<"&", "a", "m", "p", ";", " ">>)} :
                       \E t2 \in {unicode_replace(t1,
                                       <<"&", "a", "m", "p", " ">>,
                                       <<"&", "a", "m", "p", ";", " ">>)} :
                           repair'.hits_xml_string =
                               unicode_replace(t2, <<"b", "&">>,
                                               <<"b", "&", "a", "m", "p", ";">>)
        ]_vars

\* a document that the first repair does not make valid but changes, given
\* up after ten validations and written
C27_Witness ==
    /\ repair.pc = "done" /\ ~repair.dry_run_enabled
    /\ Len(repair.validated) = 10 /\ ~repair.validated[10]
    /\ repair.fixed # <<>> /\ repair.fixed # <<repair.infile>>

====
